---- MODULE Spec2Model ----
(***************************************************************************)
(* Model of kunai/src/util/namespaces.rs: the namespace identity resolver  *)
(* (Namespace::from_pid / Namespace::open) and the namespace Switcher      *)
(* (Switcher::new / Switcher::do_in_namespace), together with the part of  *)
(* the operating system they talk to: /proc/<pid>/ns/<tag>, the file       *)
(* descriptor table, setns(2) and unshare(2).                              *)
(*                                                                         *)
(* Text is a sequence of one-character strings, so that formatting and     *)
(* parsing of link targets are computed and not assumed.                   *)
(***************************************************************************)
EXTENDS Integers, Sequences, FiniteSets, TLC

\* ------------------------------------------------------------------------
\* Bounds of the model
\* ------------------------------------------------------------------------

\* length up to which every text between the brackets of a link target is tried
MaxSpan == 2

\* number of changes of namespace membership made outside the Switcher in
\* one behaviour: unshare by the caller, another process joining a namespace
\* or exiting
MaxChanges == 2

\* ------------------------------------------------------------------------
\* Kind taxonomy
\* ------------------------------------------------------------------------

Kinds == {"Cgroup", "Ipc", "Mnt", "Net", "Pid", "Time", "User", "Uts"}

\* Kind::as_str, the #[str(..)] attribute of each variant
as_str(kind) ==
  CASE kind = "Cgroup" -> <<"c", "g", "r", "o", "u", "p">>
    [] kind = "Ipc"    -> <<"i", "p", "c">>
    [] kind = "Mnt"    -> <<"m", "n", "t">>
    [] kind = "Net"    -> <<"n", "e", "t">>
    [] kind = "Pid"    -> <<"p", "i", "d">>
    [] kind = "Time"   -> <<"t", "i", "m", "e">>
    [] kind = "User"   -> <<"u", "s", "e", "r">>
    [] kind = "Uts"    -> <<"u", "t", "s">>

\* variant: the path of the calling process, /proc/self/ns/<tag>
path_Self(kind, pid) == [pid |-> 1, tag |-> as_str(kind)]

\* Kind::path: /proc/<pid>/ns/<tag>
path(kind, pid) == [pid |-> pid, tag |-> as_str(kind)]

\* the kind whose directory entry a path names
KindOfTag(tag) == CHOOSE k \in Kinds : as_str(k) = tag

CLONE_NEWNS == 131072

\* the namespace-type flag the kernel associates with each kind of handle
NsTypeOf(kind) ==
  CASE kind = "Mnt"    -> CLONE_NEWNS
    [] kind = "Cgroup" -> 33554432
    [] kind = "Uts"    -> 67108864
    [] kind = "Ipc"    -> 134217728
    [] kind = "User"   -> 268435456
    [] kind = "Pid"    -> 536870912
    [] kind = "Net"    -> 1073741824
    [] kind = "Time"   -> 128

\* ------------------------------------------------------------------------
\* Text: decimal formatting and u32 parsing
\* ------------------------------------------------------------------------

DigitChars == <<"0", "1", "2", "3", "4", "5", "6", "7", "8", "9">>

IsDigit(c) == \E i \in 1..10 : DigitChars[i] = c

DigitVal(c) == (CHOOSE i \in 1..10 : DigitChars[i] = c) - 1

\* A u32 is kept as two 16-bit limbs, value = hi * Limb + lo, so that the
\* whole range of the type is there and overflow is computed, not assumed
Limb == 65536

U32(hi, lo) == [hi |-> hi, lo |-> lo]

Zero == U32(0, 0)

\* n \div 10 and n % 10 by long division over the limbs
Div10(n) == U32(n.hi \div 10, (((n.hi % 10) * Limb) + n.lo) \div 10)

Mod10(n) == (((n.hi % 10) * Limb) + n.lo) % 10

RECURSIVE ToDecimal(_)
\* the kernel prints the inode number with %u
ToDecimal(n) ==
  IF n.hi = 0 /\ n.lo < 10 THEN <<DigitChars[n.lo + 1]>>
  ELSE ToDecimal(Div10(n)) \o <<DigitChars[Mod10(n) + 1]>>

\* the link target the kernel shows for a namespace: "<tag>:[<inum>]"
LinkText(kind, inum) == as_str(kind) \o <<":", "[">> \o ToDecimal(inum) \o <<"]">>

\* variant: the digit is not added
MulAdd_NoAdd(acc, d) == U32(acc.hi * 10 + ((acc.lo * 10) \div Limb), (acc.lo * 10) % Limb)

\* acc * 10 + d over the limbs; hi >= Limb in the result means overflow of u32
MulAdd(acc, d) ==
  LET lo1 == (acc.lo * 10) + d
  IN  U32((acc.hi * 10) + (lo1 \div Limb), lo1 % Limb)

NoText == [some |-> FALSE, text |-> <<>>]

SomeText(s) == [some |-> TRUE, text |-> s]

\* str::strip_prefix
strip_prefix(s, p) ==
  IF Len(s) >= Len(p) /\ SubSeq(s, 1, Len(p)) = p
  THEN SomeText(SubSeq(s, Len(p) + 1, Len(s)))
  ELSE NoText

\* str::strip_suffix
strip_suffix(s, p) ==
  IF Len(s) >= Len(p) /\ SubSeq(s, Len(s) - Len(p) + 1, Len(s)) = p
  THEN SomeText(SubSeq(s, 1, Len(s) - Len(p)))
  ELSE NoText

RECURSIVE ParseDigits(_, _)
\* accumulate decimal digits left to right, checking for overflow of u32
ParseDigits(s, acc) ==
  IF s = <<>> THEN [tag |-> "Ok", val |-> acc]
  ELSE IF ~IsDigit(Head(s)) THEN [tag |-> "Parse", why |-> "InvalidDigit"]
  ELSE IF MulAdd(acc, DigitVal(Head(s))).hi >= Limb
       THEN [tag |-> "Parse", why |-> "PosOverflow"]
  ELSE ParseDigits(Tail(s), MulAdd(acc, DigitVal(Head(s))))

\* str::parse::<u32>: empty text is an error, a lone sign is an error, one
\* leading "+" is accepted, "-" is not a digit of an unsigned type
parse_u32(s) ==
  IF s = <<>> THEN [tag |-> "Parse", why |-> "Empty"]
  ELSE IF Len(s) = 1 /\ Head(s) \in {"+", "-"}
       THEN [tag |-> "Parse", why |-> "InvalidDigit"]
  ELSE IF Head(s) = "+" THEN ParseDigits(Tail(s), Zero)
  ELSE ParseDigits(s, Zero)

\* ------------------------------------------------------------------------
\* Namespace identity resolver
\* ------------------------------------------------------------------------

\* struct Namespace { inum, kind }
Namespace(kind, inum) == [inum |-> inum, kind |-> kind]

IoErr(code) == [tag |-> "Io", code |-> code]

\* variant: the tag of any kind is accepted in front of ":["
Envelope_AnyTag(kind, text) ==
  LET ks == {k \in Kinds : strip_prefix(text, as_str(k) \o <<":", "[">>).some}
  IN  IF ks = {} THEN NoText
      ELSE strip_suffix(strip_prefix(text, as_str(CHOOSE k \in ks : TRUE) \o <<":", "[">>).text,
                        <<"]">>)

\* the envelope check of Namespace::from_pid: strip "<tag>:[" and then "]"
Envelope(kind, text) ==
  LET prefix == as_str(kind) \o <<":", "[">>
      a == strip_prefix(text, prefix)
  IN  IF a.some THEN strip_suffix(a.text, <<"]">>) ELSE NoText

\* Namespace::from_pid, given the outcome of read_link on kind.path(pid):
\* link is [tag |-> "Ok", text |-> ..] or an Io error
from_link(kind, link) ==
  IF link.tag # "Ok" THEN link
  ELSE LET s == Envelope(kind, link.text)
       IN  IF ~s.some THEN [tag |-> "Format"]
           ELSE LET n == parse_u32(s.text)
                IN  IF n.tag # "Ok" THEN n
                    ELSE [tag |-> "Ok", ns |-> Namespace(kind, n.val)]

\* ------------------------------------------------------------------------
\* The operating system as the module sees it
\* ------------------------------------------------------------------------

\* process::id() of the calling process
SelfPid == 1

\* pids a caller may pass to Switcher::new: itself, a process living in
\* other namespaces, and a pid no process has
Pids == {SelfPid, 2, 3}

\* the pids that name a process in Init
LivePids == {SelfPid, 2}

\* the kernel numbers namespaces from 0xF0000000 upwards: the n-th one
NthInum(n) == U32(61440, n)

\* the namespace instance in which a process of Init starts
InitInum(pid) == NthInum(pid)

\* descriptors Namespace::open may return
Fds == {3, 4}

NoFile == [inum |-> Zero, kind |-> "none"]

None == [some |-> FALSE, fd |-> 0]

Some(fd) == [some |-> TRUE, fd |-> fd]

NoSwitcher == [live |-> FALSE]

NoNs == [inum |-> Zero, kind |-> "none"]

NoOp == [name |-> "none"]

NoRet == [tag |-> "none"]

NotMade == [self_ns |-> NoNs, pid |-> 0]

NotSeen == [kind |-> "none", pid |-> 0, ns |-> NoNs, at |-> Zero]

NoLocals == [self_ns |-> NoNs, target_ns |-> NoNs, src |-> None, res |-> NoRet]

\* setns and unshare on these kinds change the namespace of future children,
\* not the one /proc/<pid>/ns/<tag> shows for the caller
ChildOnly == {"Pid", "Time"}

VARIABLES
  nsOf,      \* nsOf[pid][kind]: inode number of the namespace the process is in
  alive,     \* alive[pid]: the pid names a process
  priv,      \* the caller holds CAP_SYS_ADMIN
  fdtab,     \* the caller's descriptor table: the namespace each handle names
  fresh,     \* namespaces created since Init
  env,       \* steps taken by other processes
  sw,        \* the Switcher the caller holds, or NoSwitcher
  pc,        \* the caller's position
  op,        \* the operation in progress and its arguments
  loc,       \* its local variables
  ret,       \* its return value
  trace,     \* what it did so far: OS calls and logic invocations, in order
  start,     \* the caller's namespace (of the Switcher's kind) when a run began
  made,      \* how the Switcher was constructed: the caller's resolved identity, the pid
  procfs,    \* what is mounted on /proc: the kernel's procfs, or something else
  seen       \* the last identity Namespace::from_pid returned to the caller

vars == <<nsOf, alive, priv, fdtab, fresh, env, sw, pc, op, loc, ret, trace, start, made, procfs, seen>>

osvars == <<nsOf, alive, priv, fdtab, fresh, env, procfs>>

\* outcomes of read_link / open on /proc/<pid>/ns/<tag>: no such process,
\* access denied (possible only for another process and without privilege),
\* or the namespace the process is in at this moment
Lookup(p) ==
  LET kind == KindOfTag(p.tag)
  IN  IF ~alive[p.pid] THEN {IoErr("ENOENT")}
      ELSE {[tag |-> "Ok", ns |-> Namespace(kind, nsOf[p.pid][kind])]}
           \cup (IF p.pid # SelfPid /\ ~priv THEN {IoErr("EACCES")} ELSE {})

\* link targets a /proc that is not the kernel's may show for a namespace:
\* another kind's tag, no closing bracket, nothing / a sign / too large a
\* number between the brackets, and an explicit plus sign
OddTexts(kind, inum) ==
  LET pre == as_str(kind) \o <<":", "[">>
  IN  {LinkText(IF kind = "Mnt" THEN "Net" ELSE "Mnt", inum),
       pre \o ToDecimal(inum),
       pre \o <<"]">>,
       pre \o <<"-", "1", "]">>,
       pre \o <<"4", "2", "9", "4", "9", "6", "7", "2", "9", "6", "]">>,
       pre \o <<"+">> \o ToDecimal(inum) \o <<"]">>}

\* Path::read_link: the link target as text
read_link(p) ==
  UNION {IF r.tag # "Ok" THEN {r}
         ELSE {[tag |-> "Ok", text |-> t] :
                 t \in {LinkText(r.ns.kind, r.ns.inum)}
                        \cup (IF procfs = "kernel" THEN {} ELSE OddTexts(r.ns.kind, r.ns.inum))}
           : r \in Lookup(p)}

\* lowest free descriptor
FreeFd == CHOOSE fd \in Fds : fdtab[fd] = NoFile /\ \A g \in Fds : fdtab[g] = NoFile => fd <= g

\* Namespace::open: File::options().read(true).open(kind.path(pid))
open(kind, pid) ==
  {IF r.tag = "Ok" THEN [tag |-> "Ok", fd |-> FreeFd, ns |-> r.ns] ELSE r
     : r \in Lookup(path(kind, pid))}

\* libc::setns(fd, nstype): the error it fails with, or "OK"
setns(fd, nstype) ==
  IF fd \notin Fds \/ fdtab[fd] = NoFile THEN "EBADF"
  ELSE IF nstype # 0 /\ nstype # NsTypeOf(fdtab[fd].kind) THEN "EINVAL"
  ELSE IF ~priv THEN "EPERM"
  ELSE "OK"

\* the caller's memberships after a successful setns(fd, _)
Joined(fd) ==
  IF fdtab[fd].kind \in ChildOnly THEN nsOf
  ELSE [nsOf EXCEPT ![SelfPid][fdtab[fd].kind] = fdtab[fd].inum]

InitOS ==
  /\ nsOf = [p \in Pids |-> [k \in Kinds |-> InitInum(IF p \in LivePids THEN p ELSE SelfPid)]]
  /\ alive = [p \in Pids |-> p \in LivePids]
  /\ priv \in BOOLEAN
  /\ fdtab = [fd \in Fds |-> NoFile]
  /\ fresh = 0
  /\ env = 0
  /\ sw = NoSwitcher
  /\ pc = "idle"
  /\ op = NoOp
  /\ loc = NoLocals
  /\ ret = NoRet
  /\ trace = <<>>
  /\ start = Zero
  /\ made = NotMade
  /\ seen = NotSeen

Init ==
  /\ InitOS
  /\ procfs = "kernel"

\* the same, on a host whose /proc need not be the kernel's procfs
InitAnyProc ==
  /\ InitOS
  /\ procfs \in {"kernel", "other"}

\* ------------------------------------------------------------------------
\* Results
\* ------------------------------------------------------------------------

Ok(v) == [tag |-> "Ok", val |-> v]

Err(e) == [tag |-> "Err", err |-> e]

\* variant: the identity error is boxed into Error::Other
NamespaceError_Other(e) == [tag |-> "Other", source |-> e]

\* Error::Namespace(#[from] NsError), applied by `?` in Switcher::new
NamespaceError(e) == [tag |-> "Namespace", source |-> e]

\* Error::Enter(Namespace, IoError)
EnterError(ns, code) == [tag |-> "Enter", ns |-> ns, code |-> code]

\* Error::Exit(Namespace, IoError)
ExitError(ns, code) == [tag |-> "Exit", ns |-> ns, code |-> code]

\* what the caller-supplied closure may return: a value or its own failure
LogicResults == {Ok("v"), Err([tag |-> "Other", msg |-> "e"])}

\* ... or it does not return: it panics
Panic == [tag |-> "Panic"]

\* ------------------------------------------------------------------------
\* Switcher::new
\* ------------------------------------------------------------------------

\* struct Switcher { namespace, src, dst }
Switcher(ns, src, dst) == [live |-> TRUE, namespace |-> ns, src |-> src, dst |-> dst]

\* variant: handles are opened whatever the two identities are
NeedsHandles_Always(self_ns, target_ns) == TRUE

\* variant: the comparison is inverted
NeedsHandles_Inverted(self_ns, target_ns) == self_ns = target_ns

\* `if self_ns == target_ns { (None, None) } else { open both }`
NeedsHandles(self_ns, target_ns) == self_ns # target_ns

Event(e) == trace' = Append(trace, e)

\* variant: the handle is leaked instead of closed (mem::forget, into_raw_fd)
Closed_Leaked(fdt, h) == fdt

\* the descriptor table after an Option<File> is dropped: Some(file) is closed
Closed(fdt, h) ==
  [fd \in Fds |-> IF h.some /\ h.fd = fd THEN NoFile ELSE fdt[fd]]

\* a caller starts Switcher::new(kind, pid)
NewCall(kind, pid) ==
  /\ pc = "idle"
  /\ ~sw.live
  /\ pc' = "new_self"
  /\ op' = [name |-> "new", kind |-> kind, pid |-> pid]
  /\ UNCHANGED <<osvars, seen, sw, loc, ret, trace, start, made>>

\* let self_ns = Namespace::from_pid(kind, self_pid)?;
NewResolveSelf ==
  /\ pc = "new_self"
  /\ \E link \in read_link(path(op.kind, SelfPid)) :
       LET r == from_link(op.kind, link)
       IN  /\ Event([sys |-> "read_link", pid |-> SelfPid, kind |-> op.kind, out |-> link])
           /\ IF r.tag # "Ok"
              THEN /\ ret' = Err(NamespaceError(r))
                   /\ pc' = "ret"
                   /\ UNCHANGED loc
              ELSE /\ loc' = [loc EXCEPT !.self_ns = r.ns]
                   /\ pc' = "new_target"
                   /\ UNCHANGED ret
  /\ UNCHANGED <<osvars, seen, sw, op, start, made>>

\* let target_ns = Namespace::from_pid(kind, pid)?; and the comparison
NewResolveTarget ==
  /\ pc = "new_target"
  /\ \E link \in read_link(path(op.kind, op.pid)) :
       LET r == from_link(op.kind, link)
       IN  /\ Event([sys |-> "read_link", pid |-> op.pid, kind |-> op.kind, out |-> link])
           /\ IF r.tag # "Ok"
              THEN /\ ret' = Err(NamespaceError(r))
                   /\ pc' = "ret"
                   /\ UNCHANGED <<loc, sw, made>>
              ELSE IF NeedsHandles(loc.self_ns, r.ns)
              THEN /\ loc' = [loc EXCEPT !.target_ns = r.ns]
                   /\ pc' = "new_src"
                   /\ UNCHANGED <<ret, sw, made>>
              ELSE /\ sw' = Switcher(r.ns, None, None)
                   /\ made' = [self_ns |-> loc.self_ns, pid |-> op.pid]
                   /\ ret' = Ok("Switcher")
                   /\ pc' = "ret"
                   /\ loc' = [loc EXCEPT !.target_ns = r.ns]
  /\ UNCHANGED <<osvars, seen, op, start>>

\* let src = Namespace::open(kind, self_pid)?;
NewOpenSrc ==
  /\ pc = "new_src"
  /\ \E o \in open(op.kind, SelfPid) :
       /\ Event([sys |-> "open", pid |-> SelfPid, kind |-> op.kind, ok |-> o.tag = "Ok"])
       /\ IF o.tag # "Ok"
          THEN /\ ret' = Err(NamespaceError(o))
               /\ pc' = "ret"
               /\ UNCHANGED <<loc, fdtab>>
          ELSE /\ fdtab' = [fdtab EXCEPT ![o.fd] = o.ns]
               /\ loc' = [loc EXCEPT !.src = Some(o.fd)]
               /\ pc' = "new_dst"
               /\ UNCHANGED ret
  /\ UNCHANGED <<nsOf, alive, priv, fresh, env, sw, op, start, made, procfs, seen>>

\* let dst = Namespace::open(kind, pid)?; Ok(Self { namespace: target_ns, src, dst })
\* On failure `?` returns and the local `src` is dropped, which closes it.
NewOpenDst ==
  /\ pc = "new_dst"
  /\ \E o \in open(op.kind, op.pid) :
       /\ Event([sys |-> "open", pid |-> op.pid, kind |-> op.kind, ok |-> o.tag = "Ok"])
       /\ IF o.tag # "Ok"
          THEN /\ ret' = Err(NamespaceError(o))
               /\ fdtab' = Closed(fdtab, loc.src)
               /\ loc' = [loc EXCEPT !.src = None]
               /\ pc' = "ret"
               /\ UNCHANGED <<sw, made>>
          ELSE /\ fdtab' = [fdtab EXCEPT ![o.fd] = o.ns]
               /\ sw' = Switcher(loc.target_ns, loc.src, Some(o.fd))
               /\ made' = [self_ns |-> loc.self_ns, pid |-> op.pid]
               /\ ret' = Ok("Switcher")
               /\ pc' = "ret"
               /\ UNCHANGED loc
  /\ UNCHANGED <<nsOf, alive, priv, fresh, env, op, start, procfs, seen>>

\* the operation has returned (or its panic was caught); the caller goes on
Return ==
  /\ pc \in {"ret", "unwound"}
  /\ pc' = "idle"
  /\ op' = NoOp
  /\ loc' = NoLocals
  /\ ret' = NoRet
  /\ trace' = <<>>
  /\ start' = Zero
  /\ seen' = IF op.name = "resolve" /\ ret.tag = "Ok"
             THEN [kind |-> op.kind, pid |-> op.pid, ns |-> ret.val, at |-> start]
             ELSE seen
  /\ UNCHANGED <<osvars, sw, made>>

\* the Switcher goes out of scope: both Option<File> are dropped
Discard ==
  /\ pc = "idle"
  /\ sw.live
  /\ fdtab' = Closed(Closed(fdtab, sw.src), sw.dst)
  /\ sw' = NoSwitcher
  /\ made' = NotMade
  /\ UNCHANGED <<nsOf, alive, priv, fresh, env, pc, op, loc, ret, trace, start, procfs, seen>>

\* ------------------------------------------------------------------------
\* Switcher::do_in_namespace
\* ------------------------------------------------------------------------

\* variant: enter passes the flag of the Switcher's own kind
enter_nstype_Kind(s) == NsTypeOf(s.namespace.kind)

\* the nstype argument Switcher::enter passes to setns
enter_nstype(s) == CLONE_NEWNS

\* the nstype argument Switcher::exit passes to setns
exit_nstype(s) == CLONE_NEWNS

\* variant: enter switches to the source handle
enter_handle_Src(s) == s.src

\* `if let Some(dst) = self.dst.as_ref()` : the handle enter switches to
enter_handle(s) == s.dst

\* variant: exit switches to the destination handle again
exit_handle_Dst(s) == s.dst

\* `if let Some(src) = self.src.as_ref()` : the handle exit switches to
exit_handle(s) == s.src

\* Switcher::enter: Ok(()) or Error::Enter(self.namespace, e)
enter(s) ==
  IF enter_handle(s).some
  THEN LET rc == setns(enter_handle(s).fd, enter_nstype(s))
       IN  IF rc = "OK" THEN Ok("unit") ELSE Err(EnterError(s.namespace, rc))
  ELSE Ok("unit")

\* Switcher::exit: Ok(()) or Error::Exit(self.namespace, e)
exit(s) ==
  IF exit_handle(s).some
  THEN LET rc == setns(exit_handle(s).fd, exit_nstype(s))
       IN  IF rc = "OK" THEN Ok("unit") ELSE Err(ExitError(s.namespace, rc))
  ELSE Ok("unit")

\* variant: the result of enter is dropped, `let _ = self.enter();`
AfterEnter_Ignored(e) == "logic"

\* `self.enter()?;` : where control goes after enter
AfterEnter(e) == IF e.tag = "Err" THEN "ret" ELSE "logic"

\* variant: `let res = f()?;` returns the closure's failure at once
AfterLogic_Question(res) == IF res.tag = "Err" THEN "ret" ELSE "exit"

\* `let res = f();` : where control goes once the closure has returned
AfterLogic(res) == "exit"

\* variant: the closure's failure is looked at before the result of exit
AfterExit_LogicFirst(e, res) == IF res.tag = "Err" THEN res ELSE IF e.tag = "Err" THEN e ELSE res

\* variant: the closure's failure is re-wrapped on the way out
AfterExit_Wrapped(e, res) ==
  IF e.tag = "Err" THEN e
  ELSE IF res.tag = "Err" THEN Err([tag |-> "Other", msg |-> "wrapped"])
  ELSE res

\* `self.exit()?; res` : the value do_in_namespace returns
AfterExit(e, res) == IF e.tag = "Err" THEN e ELSE res

\* variant: the step takes the destination handle out of the Switcher,
\* `self.dst.take()`
SelfAfter_Take(s) == [s EXCEPT !.dst = None]

\* do_in_namespace, enter and exit borrow the Switcher as `&self`, and read
\* the handles through `as_ref()`: the Switcher after a step of a run
SelfAfter(s) == s

\* a caller starts sw.do_in_namespace(f)
RunCall ==
  /\ pc = "idle"
  /\ sw.live
  /\ pc' = "enter"
  /\ op' = [name |-> "run", kind |-> sw.namespace.kind, pid |-> 0]
  /\ start' = nsOf[SelfPid][sw.namespace.kind]
  /\ UNCHANGED <<osvars, seen, sw, loc, ret, trace, made>>

\* self.enter()?;
Enter ==
  /\ pc = "enter"
  /\ LET e == enter(sw)
     IN  /\ pc' = AfterEnter(e)
         /\ ret' = IF AfterEnter(e) = "ret" THEN e ELSE ret
         /\ IF enter_handle(sw).some
            THEN LET fd == enter_handle(sw).fd
                     rc == setns(fd, enter_nstype(sw))
                 IN  /\ Event([sys |-> "setns", fd |-> fd, nstype |-> enter_nstype(sw),
                                rc |-> rc, priv |-> priv])
                     /\ nsOf' = IF rc = "OK" THEN Joined(fd) ELSE nsOf
            ELSE UNCHANGED <<trace, nsOf>>
  /\ sw' = SelfAfter(sw)
  /\ UNCHANGED <<alive, priv, fdtab, fresh, env, op, loc, start, made, procfs, seen>>

\* let res = f(); the closure runs in the caller's thread: it returns a
\* result or panics, and it may give up the caller's privilege on its way
Logic ==
  /\ pc = "logic"
  /\ \E out \in LogicResults \cup {Panic}, p \in {priv, FALSE} :
       /\ Event([sys |-> "logic"])
       /\ priv' = p
       /\ loc' = [loc EXCEPT !.res = out]
       /\ IF out = Panic
          THEN /\ pc' = "unwound"
               /\ UNCHANGED ret
          ELSE /\ pc' = AfterLogic(out)
               /\ ret' = IF AfterLogic(out) = "ret" THEN out ELSE ret
  /\ sw' = SelfAfter(sw)
  /\ UNCHANGED <<nsOf, alive, fdtab, fresh, env, op, start, made, procfs, seen>>

\* self.exit()?; res
Exit ==
  /\ pc = "exit"
  /\ LET e == exit(sw)
     IN  /\ pc' = "ret"
         /\ ret' = AfterExit(e, loc.res)
         /\ IF exit_handle(sw).some
            THEN LET fd == exit_handle(sw).fd
                     rc == setns(fd, exit_nstype(sw))
                 IN  /\ Event([sys |-> "setns", fd |-> fd, nstype |-> exit_nstype(sw),
                                rc |-> rc, priv |-> priv])
                     /\ nsOf' = IF rc = "OK" THEN Joined(fd) ELSE nsOf
            ELSE UNCHANGED <<trace, nsOf>>
  /\ sw' = SelfAfter(sw)
  /\ UNCHANGED <<alive, priv, fdtab, fresh, env, op, loc, start, made, procfs, seen>>

\* ------------------------------------------------------------------------
\* Other things the caller and other processes do
\* ------------------------------------------------------------------------

\* inode number of the next namespace the kernel creates
FreshInum == NthInum(Cardinality(Pids) + fresh + 1)

\* unshare(flags) with the flag of one kind: the caller moves into a new
\* namespace of that kind; without privilege only a user namespace is allowed
Unshare(kind) ==
  /\ pc = "idle"
  /\ fresh + env < MaxChanges
  /\ pc' = "ret"
  /\ op' = [name |-> "unshare", kind |-> kind, pid |-> SelfPid]
  /\ IF ~priv /\ kind # "User"
     THEN /\ ret' = Err(IoErr("EPERM"))
          /\ UNCHANGED <<nsOf, fresh>>
     ELSE /\ ret' = Ok("unit")
          /\ fresh' = fresh + 1
          /\ nsOf' = IF kind \in ChildOnly THEN nsOf
                     ELSE [nsOf EXCEPT ![SelfPid][kind] = FreshInum]
  /\ UNCHANGED <<alive, priv, fdtab, env, sw, loc, trace, start, made, procfs, seen>>

\* the caller gains or gives up CAP_SYS_ADMIN between two operations
Capset ==
  /\ pc = "idle"
  /\ priv' = ~priv
  /\ UNCHANGED <<nsOf, alive, fdtab, fresh, env, sw, pc, op, loc, ret, trace, start, made, procfs, seen>>

\* another process joins a namespace some live process is in
OtherSetns(p, kind, q) ==
  /\ fresh + env < MaxChanges
  /\ p # SelfPid
  /\ alive[p] /\ alive[q]
  /\ nsOf[q][kind] # nsOf[p][kind]
  /\ env' = env + 1
  /\ nsOf' = [nsOf EXCEPT ![p][kind] = nsOf[q][kind]]
  /\ UNCHANGED <<alive, priv, fdtab, fresh, sw, pc, op, loc, ret, trace, start, made, procfs, seen>>

\* another process exits
OtherExit(p) ==
  /\ fresh + env < MaxChanges
  /\ p # SelfPid
  /\ alive[p]
  /\ env' = env + 1
  /\ alive' = [alive EXCEPT ![p] = FALSE]
  /\ UNCHANGED <<nsOf, priv, fdtab, fresh, sw, pc, op, loc, ret, trace, start, made, procfs, seen>>

\* ------------------------------------------------------------------------
\* Namespace::from_pid on its own
\* ------------------------------------------------------------------------

\* characters tried between the brackets
SpanChars == {"0", "1", "9", "+", "-", "a", "]"}

RECURSIVE SpansUpTo(_)
SpansUpTo(n) ==
  IF n = 0 THEN {<<>>}
  ELSE SpansUpTo(n - 1) \cup {Append(t, c) : t \in SpansUpTo(n - 1), c \in SpanChars}

\* longer texts around the largest u32
LongSpans ==
  {<<"4", "2", "9", "4", "9", "6", "7", "2", "9", "5">>,
   <<"4", "2", "9", "4", "9", "6", "7", "2", "9", "6">>,
   <<"4", "2", "9", "4", "9", "6", "7", "3", "0", "0">>,
   <<"5", "0", "0", "0", "0", "0", "0", "0", "0", "0">>,
   <<"0", "4", "2", "9", "4", "9", "6", "7", "2", "9", "5">>,
   <<"1", "0", "0", "0", "0", "0", "0", "0", "0", "0", "0">>,
   <<"+", "4", "0", "2", "6", "5", "3", "1", "8", "4", "0">>}

\* what a link target may begin and end with
Heads(kind) ==
  {as_str(k) \o <<":", "[">> : k \in Kinds}
  \cup {<<>>, as_str(kind), as_str(kind) \o <<":">>, <<" ">> \o as_str(kind) \o <<":", "[">>}

Tails == {<<>>, <<"]">>, <<"]", " ">>}

\* the link targets from_pid is tried on for a kind
LinkTexts(kind) ==
  {h \o b \o t : h \in Heads(kind), b \in SpansUpTo(MaxSpan) \cup LongSpans, t \in Tails}

\* Namespace::from_pid(kind, _) is called and read_link returns `text`
ReadsLink(kind, text) ==
  /\ pc = "idle"
  /\ op = NoOp
  /\ pc' = "parse"
  /\ op' = [name |-> "parse", kind |-> kind, text |-> text]
  /\ UNCHANGED <<osvars, seen, sw, loc, ret, trace, start, made>>

\* the rest of Namespace::from_pid: envelope, parse, Ok(Namespace { inum, kind })
ParseLink ==
  /\ pc = "parse"
  /\ LET r == from_link(op.kind, [tag |-> "Ok", text |-> op.text])
     IN  ret' = IF r.tag = "Ok" THEN Ok(r.ns) ELSE Err(r)
  /\ pc' = "ret"
  /\ UNCHANGED <<osvars, seen, sw, op, loc, trace, start, made>>

\* a caller starts Namespace::from_pid(kind, pid)
ResolveCall(kind, pid) ==
  /\ pc = "idle"
  /\ op = NoOp
  /\ pc' = "resolve"
  /\ op' = [name |-> "resolve", kind |-> kind, pid |-> pid]
  /\ UNCHANGED <<osvars, seen, sw, loc, ret, trace, start, made>>

\* Namespace::from_pid: read the link, check the envelope, parse the number
Resolve ==
  /\ pc = "resolve"
  /\ \E link \in read_link(path(op.kind, op.pid)) :
       LET r == from_link(op.kind, link)
       IN  /\ Event([sys |-> "read_link", pid |-> op.pid, kind |-> op.kind, out |-> link])
           /\ ret' = IF r.tag = "Ok" THEN Ok(r.ns) ELSE Err(r)
  /\ start' = nsOf[op.pid][op.kind]
  /\ pc' = "ret"
  /\ UNCHANGED <<osvars, seen, sw, op, loc, made>>

NextResolve ==
  \/ \E kind \in Kinds, pid \in Pids : ResolveCall(kind, pid)
  \/ Resolve
  \/ Return
  \/ \E kind \in Kinds : Unshare(kind)
  \/ Capset
  \/ \E p \in Pids, kind \in Kinds, q \in Pids : OtherSetns(p, kind, q)
  \/ \E p \in Pids : OtherExit(p)

SpecResolve == Init /\ [][NextResolve]_vars

NextParse ==
  \/ pc = "idle" /\ \E kind \in Kinds : \E text \in LinkTexts(kind) : ReadsLink(kind, text)
  \/ ParseLink
  \/ Return

SpecParse == Init /\ [][NextParse]_vars

Next ==
  \/ \E kind \in Kinds, pid \in Pids : NewCall(kind, pid)
  \/ NewResolveSelf
  \/ NewResolveTarget
  \/ NewOpenSrc
  \/ NewOpenDst
  \/ Return
  \/ Discard
  \/ RunCall
  \/ Enter
  \/ Logic
  \/ Exit
  \/ \E kind \in Kinds : Unshare(kind)
  \/ Capset
  \/ \E p \in Pids, kind \in Kinds, q \in Pids : OtherSetns(p, kind, q)
  \/ \E p \in Pids : OtherExit(p)

Spec == Init /\ [][Next]_vars

SpecAnyProc == InitAnyProc /\ [][Next]_vars

TypeOK ==
  /\ pc \in {"idle", "new_self", "new_target", "new_src", "new_dst", "enter", "logic",
             "exit", "ret", "unwound", "parse", "resolve"}
  /\ priv \in BOOLEAN
  /\ Len(trace) <= 4

\* ------------------------------------------------------------------------
\* Reading the record of the operation in progress
\* ------------------------------------------------------------------------

Running == op.name = "run"

Constructing == op.name = "new"

Returned == pc = "ret"

\* positions in trace of the calls of the switching primitive / of the logic
SetnsAt == {i \in DOMAIN trace : trace[i].sys = "setns"}

LogicAt == {i \in DOMAIN trace : trace[i].sys = "logic"}

\* the enter switch is the call on the destination handle, the exit switch
\* the call on the source handle
EnterCalls == {i \in SetnsAt : sw.dst.some /\ trace[i].fd = sw.dst.fd}

ExitCalls == {i \in SetnsAt : sw.src.some /\ trace[i].fd = sw.src.fd}

Failed(S) == {i \in S : trace[i].rc # "OK"}

EnterSucceeded == EnterCalls # {} /\ Failed(EnterCalls) = {}

IsExitError(r) == r.tag = "Err" /\ r.err.tag = "Exit"

SelfNow(kind) == nsOf[SelfPid][kind]

\* ------------------------------------------------------------------------
\* Properties
\* ------------------------------------------------------------------------

\* C1: whenever the exit switch of a run fails, the run returns
\* Error::Exit carrying the Switcher's target identity and the OS error of
\* that switch, whether the logic returned a value or a failure; the
\* logic's outcome is not what is returned.
C1_ExitFailurePrecedence ==
  (Running /\ Returned /\ Failed(ExitCalls) # {}) =>
    /\ \E i \in Failed(ExitCalls) : ret = Err(ExitError(sw.namespace, trace[i].rc))
    /\ ret # loc.res

\* a run whose logic succeeded and whose exit switch then failed
C1_Witness ==
  Running /\ Returned /\ Failed(ExitCalls) # {} /\ loc.res.tag = "Ok"

\* C2: when the enter switch fails, the logic is not invoked, the switching
\* primitive is not called again, and the run returns Error::Enter carrying
\* the Switcher's target identity and the OS error.
C2_EnterFailureShortCircuit ==
  (Running /\ Failed(EnterCalls) # {}) =>
    /\ Returned
    /\ LogicAt = {}
    /\ Cardinality(SetnsAt) = 1
    /\ \E i \in Failed(EnterCalls) : ret = Err(EnterError(sw.namespace, trace[i].rc))

\* a run that ended with a failed enter switch
C2_Witness ==
  Running /\ Returned /\ Failed(EnterCalls) # {} /\ ret.tag = "Err" /\ ret.err.tag = "Enter"

\* C3: with a source handle, once the enter switch has succeeded and the
\* logic has returned (a value or a failure), the exit switch on the source
\* handle is attempted exactly once: not yet while the run is about to exit,
\* once and after the logic when the run has returned.
C3_ExitAttemptedOnce ==
  (Running /\ sw.src.some /\ EnterSucceeded /\ loc.res \in LogicResults) =>
    \/ pc = "exit" /\ ExitCalls = {}
    \/ /\ Returned
       /\ Cardinality(ExitCalls) = 1
       /\ \A i \in ExitCalls, j \in LogicAt : j < i

\* a run whose logic failed and whose exit switch was then attempted
C3_Witness ==
  /\ Running /\ Returned /\ sw.src.some /\ EnterSucceeded
  /\ loc.res.tag = "Err" /\ Cardinality(ExitCalls) = 1

\* C4: once the enter switch succeeded, the exit switch is attempted before
\* the run ends, also when the run ends by unwinding out of the logic.
C4_ExitAttemptedOnEveryPath ==
  (Running /\ pc \in {"ret", "unwound"} /\ EnterSucceeded) => ExitCalls # {}

\* C5 as claimed: after a run that returns anything but Error::Exit the
\* caller is in the namespace (of the Switcher's kind) it was in when the
\* run began.
C5_RestoredToCallTime ==
  (Running /\ Returned /\ ~IsExitError(ret)) => SelfNow(op.kind) = start

\* C5: after a run that returns anything but Error::Exit, the caller is in
\* the namespace the source handle names when the enter switch was made,
\* and in the namespace it was in when the run began when no switch was
\* made (no handles, or Error::Enter).
C5_RestoredToSource ==
  (Running /\ Returned /\ ~IsExitError(ret)) =>
    SelfNow(op.kind) = (IF EnterSucceeded THEN fdtab[sw.src.fd].inum ELSE start)

\* a run that switched and came back to the source handle's namespace, which
\* is not the one the caller was in when the run began
C5_Witness ==
  /\ Running /\ Returned /\ ~IsExitError(ret) /\ EnterSucceeded
  /\ SelfNow(op.kind) = fdtab[sw.src.fd].inum
  /\ SelfNow(op.kind) # start

\* C6: for each kind, when the caller is privileged and the Switcher has
\* its two handles, the enter switch succeeds.
C6_EnterSucceedsForEveryKind ==
  Running => \A i \in EnterCalls : trace[i].priv => trace[i].rc = "OK"

\* C7: Switcher::new for the caller's own pid succeeds for every kind and
\* yields no handles; a run of a Switcher without handles never calls the
\* switching primitive, invokes the logic once and returns its outcome as is.
C7_NoOpSwitch ==
  /\ (Constructing /\ Returned /\ op.pid = SelfPid) =>
       (ret = Ok("Switcher") /\ sw.live /\ sw.src = None /\ sw.dst = None)
  /\ (Running /\ sw.src = None /\ sw.dst = None) =>
       /\ SetnsAt = {}
       /\ Returned => (Cardinality(LogicAt) = 1 /\ ret = loc.res)

\* a Switcher made for the caller's own pid has run a failing logic
C7_Witness ==
  /\ Running /\ Returned /\ made.pid = SelfPid
  /\ sw.src = None /\ sw.dst = None
  /\ loc.res.tag = "Err" /\ ret = loc.res

\* C8: a Switcher has both handles or none, and none exactly when the
\* caller's identity resolved at construction equals the target identity;
\* in every state, runs included.
C8_HandlePairing ==
  sw.live =>
    /\ sw.src.some = sw.dst.some
    /\ (~sw.src.some) <=> (made.self_ns = sw.namespace)

\* a Switcher with handles that has completed a run
C8_Witness ==
  sw.live /\ sw.src.some /\ sw.dst.some /\ Running /\ Returned /\ EnterSucceeded

\* C9: when no switch of a run fails (or none is made), the run returns
\* exactly what the logic returned.
C9_LogicOutcomeReturned ==
  (Running /\ Returned /\ Failed(SetnsAt) = {}) =>
    (loc.res \in LogicResults /\ ret = loc.res)

\* a run with two successful switches around a failing logic
C9_Witness ==
  /\ Running /\ Returned /\ Cardinality(SetnsAt) = 2 /\ Failed(SetnsAt) = {}
  /\ ret.tag = "Err"

\* C10: Switcher::new reads the caller's link first and the target's
\* second, before any open; when either resolution fails it returns
\* Error::Namespace wrapping that error, right after the failed resolution,
\* with no Switcher, no handle open and no switching call made.
C10_ConstructionFailure ==
  Constructing =>
    /\ \A i \in DOMAIN trace :
         /\ trace[i].sys # "setns"
         /\ i = 1 => (trace[i].sys = "read_link" /\ trace[i].pid = SelfPid)
         /\ i = 2 => (trace[i].sys = "read_link" /\ trace[i].pid = op.pid)
         /\ i > 2 => trace[i].sys = "open"
    /\ \A i \in DOMAIN trace :
         trace[i].sys = "read_link" =>
           LET r == from_link(op.kind, trace[i].out)
           IN  r.tag # "Ok" =>
                 /\ Returned
                 /\ i = Len(trace)
                 /\ ret = Err([tag |-> "Namespace", source |-> r])
                 /\ ~sw.live
                 /\ \A fd \in Fds : fdtab[fd] = NoFile

\* construction gave up because the target's link did not parse
C10_Witness ==
  /\ Constructing /\ Returned /\ Len(trace) = 2
  /\ ret.tag = "Err" /\ ret.err.tag = "Namespace" /\ ret.err.source.tag = "Parse"

\* the descriptors that are open, and those the live Switcher owns
OpenFds == {fd \in Fds : fdtab[fd] # NoFile}

Owned(s) ==
  IF s.live THEN {h.fd : h \in {g \in {s.src, s.dst} : g.some}} ELSE {}

\* C11: outside a construction in progress the open namespace handles are
\* exactly the handles of the live Switcher: none after a discard, whether
\* or not it ever ran, and none after a construction that failed, also one
\* that failed after the source handle had been opened; while a construction
\* is in progress the only handle open is the source handle it holds.
C11_HandleRelease ==
  IF pc \in {"new_self", "new_target", "new_src", "new_dst"}
  THEN OpenFds = (IF loc.src.some THEN {loc.src.fd} ELSE {})
  ELSE OpenFds = Owned(sw)

\* a construction that opened the source handle, failed to open the
\* destination handle and returned with no handle open
C11_Witness ==
  /\ Constructing /\ Returned /\ Len(trace) = 4
  /\ trace[3].sys = "open" /\ trace[3].ok
  /\ trace[4].sys = "open" /\ ~trace[4].ok
  /\ ret.tag = "Err" /\ OpenFds = {}

\* ------------------------------------------------------------------------
\* Properties of Namespace::from_pid, read off the link target itself
\* ------------------------------------------------------------------------

Parsing == op.name = "parse"

\* the text starts with "<tag>:[" of the kind and ends with "]"
HasEnvelope(kind, t) ==
  LET p == as_str(kind) \o <<":", "[">>
  IN  /\ Len(t) >= Len(p)
      /\ \A i \in 1..Len(p) : t[i] = p[i]
      /\ t[Len(t)] = "]"

\* what stands between "<tag>:[" and the final "]"
SpanOf(kind, t) == SubSeq(t, Len(as_str(kind)) + 3, Len(t) - 1)

AllDigits(d) == \A i \in DOMAIN d : d[i] \in {"0", "1", "2", "3", "4", "5", "6", "7", "8", "9"}

RECURSIVE StripZeros(_)
StripZeros(d) == IF d # <<>> /\ Head(d) = "0" THEN StripZeros(Tail(d)) ELSE d

\* the digits without leading zeros, as the number is written
Canonical(d) == IF StripZeros(d) = <<>> THEN <<"0">> ELSE StripZeros(d)

MaxU32Text == <<"4", "2", "9", "4", "9", "6", "7", "2", "9", "5">>

\* a <= b for digit texts of the same length
LexLeq(a, b) ==
  \/ a = b
  \/ \E i \in DOMAIN a :
       /\ \A j \in 1..(i - 1) : a[j] = b[j]
       /\ \E x, y \in 1..10 : DigitChars[x] = a[i] /\ DigitChars[y] = b[i] /\ x < y

\* the digits denote a number of at most 2^32 - 1
FitsU32(d) ==
  \/ Len(Canonical(d)) < Len(MaxU32Text)
  \/ Len(Canonical(d)) = Len(MaxU32Text) /\ LexLeq(Canonical(d), MaxU32Text)

\* the span is a non-empty run of decimal digits that fits a u32
DigitsOk(d) == d # <<>> /\ AllDigits(d) /\ FitsU32(d)

\* C12: for every kind, a readable link target that does not start with
\* "<tag>:[" of that kind or does not end with "]" resolves to the Format
\* error, never to Parse or Io; so does a target with another kind's tag.
C12_FormatFailure ==
  (Parsing /\ Returned /\ ~HasEnvelope(op.kind, op.text)) => ret = Err([tag |-> "Format"])

\* the mount resolver was given a well-formed network link target
C12_Witness ==
  /\ Parsing /\ Returned /\ op.kind = "Mnt"
  /\ op.text = <<"n", "e", "t", ":", "[", "1", "]">>
  /\ ret = Err([tag |-> "Format"])

\* C13: resolve succeeds exactly when the target is "<tag>:[<digits>]" with
\* a non-empty span of decimal digits of value at most 2^32 - 1, and then
\* returns that value with the requested kind; every other span inside the
\* envelope (empty, with a non-digit such as a sign, too large) is a Parse
\* error.
C13_ResolveExactly ==
  (Parsing /\ Returned) =>
    LET good == HasEnvelope(op.kind, op.text) /\ DigitsOk(SpanOf(op.kind, op.text))
    IN  /\ (ret.tag = "Ok") <=> good
        /\ good => /\ ret.val.kind = op.kind
                   /\ ToDecimal(ret.val.inum) = Canonical(SpanOf(op.kind, op.text))
        /\ (HasEnvelope(op.kind, op.text) /\ ~good) =>
             (ret.tag = "Err" /\ ret.err.tag = "Parse")

\* the span without the one leading "+" that the parser lets through
Unsigned(d) == IF d # <<>> /\ Head(d) = "+" THEN Tail(d) ELSE d

\* what from_pid does: as C13 says, but for a span that may carry one "+"
ResolveAsCoded ==
  (Parsing /\ Returned) =>
    LET good == /\ HasEnvelope(op.kind, op.text)
                /\ DigitsOk(Unsigned(SpanOf(op.kind, op.text)))
    IN  /\ (ret.tag = "Ok") <=> good
        /\ good => /\ ret.val.kind = op.kind
                   /\ ToDecimal(ret.val.inum) = Canonical(Unsigned(SpanOf(op.kind, op.text)))
        /\ (HasEnvelope(op.kind, op.text) /\ ~good) =>
             (ret.tag = "Err" /\ ret.err.tag = "Parse")

\* C14 as claimed: every identity a successful resolve returns has inum > 0
\* and the requested kind, for every link target the resolver accepts.
C14_InumPositive ==
  (Parsing /\ Returned /\ ret.tag = "Ok") =>
    (ret.val.inum # Zero /\ ret.val.kind = op.kind)

\* C14: every identity a successful resolve returns has the requested kind
\* and, as inum, the value of the digits between the brackets; inum is 0
\* exactly when all these digits are 0.
C14_InumIsSpanValue ==
  (Parsing /\ Returned /\ ret.tag = "Ok") =>
    LET d == Unsigned(SpanOf(op.kind, op.text))
    IN  /\ ret.val.kind = op.kind
        /\ HasEnvelope(op.kind, op.text)
        /\ d # <<>> /\ AllDigits(d)
        /\ ToDecimal(ret.val.inum) = Canonical(d)
        /\ (ret.val.inum = Zero) <=> (\A i \in DOMAIN d : d[i] = "0")

\* a time-namespace link target with a two-digit number resolved to inum 19
C14_Witness ==
  /\ Parsing /\ Returned /\ ret.tag = "Ok" /\ op.kind = "Time"
  /\ ret.val = Namespace("Time", U32(0, 19))

\* ------------------------------------------------------------------------
\* Properties of Namespace::from_pid as an operation on a live system
\* ------------------------------------------------------------------------

Resolving == op.name = "resolve"

\* the resolution that just returned asked what the last successful one
\* asked, of a process that was then in the namespace it is in now
SameQuestion ==
  /\ seen.kind = op.kind
  /\ seen.pid = op.pid
  /\ seen.at = start

\* C15: a resolution that succeeds for the same (kind, pid) as an earlier
\* successful one, of a process that is in the same namespace as it was then,
\* returns the same identity (kind and inum); and the only OS call a
\* resolution makes is the reading of one link: it switches nothing and
\* leaves no handle open.
C15_ResolverDeterminism ==
  (Resolving /\ Returned) =>
     /\ (ret.tag = "Ok" /\ SameQuestion) => ret.val = seen.ns
     /\ Len(trace) = 1 /\ trace[1].sys = "read_link"
     /\ OpenFds = {}

\* another process is resolved a second time after the caller itself moved
\* to a fresh namespace of that kind, and the identity is the one seen before
C15_Witness ==
  /\ Resolving /\ Returned /\ ret.tag = "Ok" /\ SameQuestion
  /\ op.pid # SelfPid
  /\ nsOf[SelfPid][op.kind] # InitInum(SelfPid)
  /\ ret.val = seen.ns

\* ------------------------------------------------------------------------
\* The order of the steps of a run
\* ------------------------------------------------------------------------

IsSetnsOn(e, h) == e.sys = "setns" /\ h.some /\ e.fd = h.fd

\* the steps made so far are an initial part of: enter switch on the
\* destination handle, logic, exit switch on the source handle; nothing
\* follows a failed enter switch; without handles the logic is the only step
InProtocolOrder ==
  LET n == Len(trace)
  IN  IF sw.dst.some
      THEN /\ n <= 3
           /\ n >= 1 => IsSetnsOn(trace[1], sw.dst)
           /\ n >= 2 => trace[1].rc = "OK" /\ trace[2].sys = "logic"
           /\ n >= 3 => IsSetnsOn(trace[3], sw.src)
      ELSE /\ n <= 1
           /\ n >= 1 => trace[1].sys = "logic"

\* the three ways a run is said to end
RestoredWithLogicResult ==
  /\ LogicAt # {}
  /\ Failed(SetnsAt) = {}
  /\ sw.dst.some => Len(trace) = 3
  /\ ret = loc.res

ExitFailedWithExitError ==
  /\ LogicAt # {}
  /\ Len(trace) = 3 /\ trace[3].sys = "setns" /\ trace[3].rc # "OK"
  /\ ret.tag = "Err" /\ ret.err.tag = "Exit"

EnterFailedWithEnterError ==
  /\ LogicAt = {}
  /\ Len(trace) = 1 /\ trace[1].sys = "setns" /\ trace[1].rc # "OK"
  /\ ret.tag = "Err" /\ ret.err.tag = "Enter"

ExactlyOneTerminal ==
  Cardinality({i \in 1..3 :
                 \/ i = 1 /\ RestoredWithLogicResult
                 \/ i = 2 /\ ExitFailedWithExitError
                 \/ i = 3 /\ EnterFailedWithEnterError}) = 1

\* C16: in every run the switching primitive is called at most twice, first
\* on the destination handle and then on the source handle; the logic is
\* invoked at most once, only after a successful enter switch (or when there
\* are no handles) and before any exit switch; no step is repeated; and a
\* run that has ended, by returning or by unwinding, is in exactly one of
\* the three terminal states.
C16_ProtocolOrder ==
  Running =>
    /\ InProtocolOrder
    /\ pc \in {"ret", "unwound"} => ExactlyOneTerminal

\* what the code does keep: the order of the steps in every run, and one of
\* the three terminal states in every run that returns
OrderAsCoded ==
  Running =>
    /\ InProtocolOrder
    /\ Returned => ExactlyOneTerminal

\* C17: every call of the switching primitive made by the enter and exit
\* phases of a run passes the mount-namespace flag, whatever the kind of the
\* Switcher; the flag is the same in both phases and is never zero.
C17_FixedTypeFlag ==
  Running =>
    \A i \in SetnsAt :
       /\ trace[i].nstype = NsTypeOf("Mnt")
       /\ trace[i].nstype # 0
       /\ \A j \in SetnsAt : trace[j].nstype = trace[i].nstype

\* a Switcher of a kind other than Mnt made its enter switch
C17_Witness ==
  /\ Running /\ op.kind # "Mnt" /\ sw.namespace.kind = op.kind
  /\ EnterCalls # {}

\* ------------------------------------------------------------------------
\* Where the logic runs
\* ------------------------------------------------------------------------

\* the logic of the run in progress is about to be invoked
LogicInvoked == Running /\ pc = "logic"

\* C18 as claimed: whenever a run invokes the logic, the caller is in the
\* namespace whose identity is the Switcher's recorded target identity, with
\* or without handles, whatever happened between construction and the run.
C18_LogicInRecordedTarget ==
  LogicInvoked => Namespace(op.kind, SelfNow(op.kind)) = sw.namespace

\* C18: whenever a run invokes the logic, the caller is in the namespace the
\* destination handle names when the Switcher has handles, and in the
\* namespace it was in when the run began when it has none.
C18_LogicInHandleTarget ==
  LogicInvoked =>
    SelfNow(op.kind) = (IF sw.dst.some THEN fdtab[sw.dst.fd].inum ELSE start)

\* the logic is about to run after a switch that took the caller out of the
\* namespace it was in when the run began
C18_Witness ==
  /\ LogicInvoked /\ sw.dst.some
  /\ SelfNow(op.kind) = fdtab[sw.dst.fd].inum
  /\ SelfNow(op.kind) # start

\* ------------------------------------------------------------------------
\* The handles of a constructed Switcher and the identities it recorded
\* ------------------------------------------------------------------------

\* C19: in every constructed Switcher with handles, the destination handle
\* names the namespace whose identity is the recorded target identity and
\* the source handle names the namespace whose identity was resolved for the
\* caller, whatever other processes did between the resolution steps and the
\* open steps of the construction.
C19_HandlesMatchIdentities ==
  (sw.live /\ sw.dst.some) =>
    /\ fdtab[sw.dst.fd] = sw.namespace
    /\ fdtab[sw.src.fd] = made.self_ns

\* the part the caller's own sequential execution does keep: the source
\* handle names the namespace resolved for the caller
SourceHandleMatches ==
  (sw.live /\ sw.src.some) => fdtab[sw.src.fd] = made.self_ns

\* ------------------------------------------------------------------------
\* What a run leaves of the Switcher
\* ------------------------------------------------------------------------

\* C20: no step of a run, whatever its outcome, changes the Switcher: the
\* target identity and both handles stay what they were, and the handles it
\* owns stay open on the same namespaces, so that a later run of the same
\* Switcher attempts the same switches.
C20_RunLeavesSwitcher ==
  [][Running => /\ sw' = sw
                /\ \A fd \in Owned(sw) : fdtab'[fd] = fdtab[fd] /\ fdtab[fd] # NoFile]_vars

\* a run that made both switches has returned and the Switcher still holds
\* its two handles, both open
C20_Witness ==
  /\ Running /\ Returned /\ sw.live
  /\ Cardinality(SetnsAt) = 2
  /\ sw.src.some /\ sw.dst.some
  /\ {sw.src.fd, sw.dst.fd} \subseteq OpenFds
====
